---- MODULE Spec2Model ----
(***************************************************************************)
(* A model of the developer-tools research agent: the console loop of      *)
(* main.py, the conversation loop AgentWorkflow.run_conversation and the   *)
(* decision step AgentWorkflow.agent_decision_step of src/workflow.py,     *)
(* with its four tool handlers.  The language model and the search/scrape  *)
(* service are the environment: every answer they can give (a value, a     *)
(* missing value, a raised exception) is an input of the action.           *)
(*                                                                         *)
(* Optional[T] values are modelled as sequences: <<>> is None and <<v>> is *)
(* the value v.  Timestamps are left out: nothing reads them.              *)
(***************************************************************************)
EXTENDS Integers, Sequences, FiniteSets, TLC

VARIABLES
    pc,                    \* position of the console program
    conversation_history,  \* AgentState.conversation_history
    current_query,         \* AgentState.current_query
    extracted_tools,       \* AgentState.extracted_tools
    researched_companies,  \* AgentState.researched_companies
    awaiting_user_input,   \* AgentState.awaiting_user_input
    analysis,              \* AgentState.analysis
    conversation_complete, \* AgentState.conversation_complete
    steps,                 \* decision steps taken in this run_conversation
    llm_calls,             \* model invocations made in this run_conversation
    messages,              \* the model input the last decision step built
    last,                  \* what the last operation was and what it did
    twin,                  \* the run of the workflow-googleaistudio.py variant
    search_results,        \* _tool_search_tools: the results of the search
    all_content            \* _tool_search_tools: the collected page content

vars == <<pc, conversation_history, current_query, extracted_tools,
          researched_companies, awaiting_user_input, analysis,
          conversation_complete, steps, llm_calls, messages, last, twin,
          search_results, all_content>>

state_vars == <<conversation_history, current_query, extracted_tools,
                researched_companies, awaiting_user_input, analysis,
                conversation_complete>>

-----------------------------------------------------------------------------
(* Bounds of the model *)

\* the decision steps modelled in one run_conversation
MaxSteps == 2

-----------------------------------------------------------------------------
(* Values *)

None == <<>>
Some(v) == <<v>>

Names == {"A", "B"}

Message(role, content) == [role |-> role, content |-> content]

Apology == "I hit an internal error. Please rephrase."

RECURSIVE Join(_, _)
\* sep.join(seq)
Join(seq, sep) ==
    IF seq = <<>> THEN ""
    ELSE IF Len(seq) = 1 THEN seq[1]
    ELSE seq[1] \o sep \o Join(Tail(seq), sep)

\* seq[:n]
Take(seq, n) == SubSeq(seq, 1, IF Len(seq) < n THEN Len(seq) ELSE n)

-----------------------------------------------------------------------------
(* Text: str.strip() and str.lower() on the characters of a console line *)

Whitespace == {" ", "\t"}

LowerOf == [c \in {"E", "X", "I", "T", "Q", "U", "B", "Y"} |->
              CASE c = "E" -> "e" [] c = "X" -> "x" [] c = "I" -> "i"
                [] c = "T" -> "t" [] c = "Q" -> "q" [] c = "U" -> "u"
                [] c = "B" -> "b" [] c = "Y" -> "y"]

RECURSIVE LStrip(_)
LStrip(cs) ==
    IF cs # <<>> /\ Head(cs) \in Whitespace THEN LStrip(Tail(cs)) ELSE cs

RECURSIVE RStrip(_)
RStrip(cs) ==
    IF cs # <<>> /\ cs[Len(cs)] \in Whitespace
    THEN RStrip(SubSeq(cs, 1, Len(cs) - 1)) ELSE cs

\* str.strip()
Strip(cs) == RStrip(LStrip(cs))

\* str.lower()
Lower(cs) == [i \in 1..Len(cs) |->
                IF cs[i] \in DOMAIN LowerOf THEN LowerOf[cs[i]] ELSE cs[i]]

\* the string of a sequence of characters
Str(cs) == Join(cs, "")

ExitKeywords == {"exit", "quit", "bye"}

-----------------------------------------------------------------------------
(* models.py *)

DecisionTypes == {"respond", "ask_question", "search_tools",
                  "research_company", "analyze_companies", "end"}

\* AgentDecision with no payload populated (every Optional field at its default)
AgentDecision(t) ==
    [decision_type |-> t, message |-> None, search_tools |-> None,
     research_company |-> None, analyze_companies |-> None, end |-> None]

\* CompanyInfo as _tool_research_company first builds it
CompanyInfo(name, url) ==
    [name |-> name, description |-> "", website |-> url,
     pricing_model |-> None, is_open_source |-> None, tech_stack |-> <<>>,
     competitors |-> <<>>, api_available |-> None, language_support |-> <<>>,
     integration_capabilities |-> <<>>, developer_experience_rating |-> None]

\* an AgentState built without awaiting_user_input=False (the default is True)
AgentStateDefaultFlag(initial_message) ==
    [conversation_history |-> <<Message("user", initial_message)>>,
     current_query |-> Some(initial_message),
     extracted_tools |-> <<>>,
     researched_companies |-> <<>>,
     awaiting_user_input |-> TRUE,
     analysis |-> None,
     conversation_complete |-> FALSE]
\* a conversation started on the state the last one left
AgentStateReused(initial_message) ==
    [conversation_history |->
         Append(conversation_history, Message("user", initial_message)),
     current_query |-> Some(initial_message),
     extracted_tools |-> extracted_tools,
     researched_companies |-> researched_companies,
     awaiting_user_input |-> FALSE,
     analysis |-> analysis,
     conversation_complete |-> FALSE]

\* AgentState(conversation_history=[user turn], current_query=...,
\* awaiting_user_input=False), every other field at its default
AgentState(initial_message) ==
    [conversation_history |-> <<Message("user", initial_message)>>,
     current_query |-> Some(initial_message),
     extracted_tools |-> <<>>,
     researched_companies |-> <<>>,
     awaiting_user_input |-> FALSE,
     analysis |-> None,
     conversation_complete |-> FALSE]

\* the AgentState a program that has not yet built one would hold (defaults)
DefaultState ==
    [conversation_history |-> <<>>, current_query |-> None,
     extracted_tools |-> <<>>, researched_companies |-> <<>>,
     awaiting_user_input |-> TRUE, analysis |-> None,
     conversation_complete |-> FALSE]

\* pydantic validation of AgentDecision(**decision_dict): decision_type is a
\* Literal of the six kinds
ValidDecision(d) == d.decision_type \in DecisionTypes

-----------------------------------------------------------------------------
(* The environment's answers *)

\* what the model returned for the page analysis of a tool
ModelAnalysis(name) ==
    [pricing_model |-> "Freemium", is_open_source |-> Some(TRUE),
     tech_stack |-> <<"python">>, description |-> name \o " tool",
     api_available |-> Some(FALSE), language_support |-> <<"python">>,
     integration_capabilities |-> <<"github">>]

\* the URL the search service finds for a name
Url(name) == "https://" \o name

\* One name's research: the search ("raise": the call raises; "empty": no
\* result object or no web results; "nourl": a result without URL; "url" /
\* "meta_url": a result with its URL direct or under metadata), the scrape
\* ("raise", "none": nothing or no markdown, "content") and the analysis call
\* ("fail": the call or its parsing raises, "ok").
ResearchOutcomes ==
    {[search |-> s, scrape |-> "none", analysis |-> "ok"] :
        s \in {"raise", "empty", "nourl", "url", "meta_url"}}
    \cup {[search |-> "url", scrape |-> "raise", analysis |-> "ok"]}
    \cup {[search |-> "url", scrape |-> "content", analysis |-> a] :
        a \in {"fail", "ok"}}

-----------------------------------------------------------------------------
(* workflow.py: the tool handlers.  Each returns what the Python function  *)
(* returns (or that it raised) and the calls it made.                      *)

\* _analyze_company_content(company_name, content): one model call; the
\* default analysis when the call or its parsing raises
AnalyzeCompanyContent(company_name, outcome) ==
    IF outcome = "ok"
    THEN ModelAnalysis(company_name)
    ELSE [pricing_model |-> "Unknown", is_open_source |-> None,
          tech_stack |-> <<>>, description |-> "Analysis failed",
          api_available |-> None, language_support |-> <<>>,
          integration_capabilities |-> <<>>]

\* the record _tool_research_company returns once it has a URL
ResearchedRecord(company_name, o) ==
    LET company == CompanyInfo(company_name, Url(company_name))
        a == AnalyzeCompanyContent(company_name, o.analysis)
    IN  IF o.scrape = "content"
        THEN [company EXCEPT
                !.pricing_model = Some(a.pricing_model),
                !.is_open_source = a.is_open_source,
                !.tech_stack = a.tech_stack,
                !.description = a.description,
                !.api_available = a.api_available,
                !.language_support = a.language_support,
                !.integration_capabilities = a.integration_capabilities]
        ELSE company

\* a research that gives up when the page has no content
ToolResearchCompanyNeedsContent(company_name, o) ==
    IF o.search = "raise"
    THEN [raised |-> TRUE, company |-> None, search |-> 1, scrape |-> 0, llm |-> 0]
    ELSE IF o.search \in {"empty", "nourl"}
    THEN [raised |-> FALSE, company |-> None, search |-> 1, scrape |-> 0, llm |-> 0]
    ELSE IF o.scrape = "raise"
    THEN [raised |-> TRUE, company |-> None, search |-> 1, scrape |-> 1, llm |-> 0]
    ELSE IF o.scrape = "none"
    THEN [raised |-> FALSE, company |-> None, search |-> 1, scrape |-> 1, llm |-> 0]
    ELSE [raised |-> FALSE,
          company |-> Some(ResearchedRecord(company_name, o)),
          search |-> 1, scrape |-> 1, llm |-> 1]

\* a research that lets the failure of the page analysis escape
ToolResearchCompanyAnalysisRaises(company_name, o) ==
    IF o.search = "raise"
    THEN [raised |-> TRUE, company |-> None, search |-> 1, scrape |-> 0, llm |-> 0]
    ELSE IF o.search \in {"empty", "nourl"}
    THEN [raised |-> FALSE, company |-> None, search |-> 1, scrape |-> 0, llm |-> 0]
    ELSE IF o.scrape = "raise"
    THEN [raised |-> TRUE, company |-> None, search |-> 1, scrape |-> 1, llm |-> 0]
    ELSE IF o.scrape = "content" /\ o.analysis = "fail"
    THEN [raised |-> TRUE, company |-> None, search |-> 1, scrape |-> 1, llm |-> 1]
    ELSE [raised |-> FALSE,
          company |-> Some(ResearchedRecord(company_name, o)),
          search |-> 1, scrape |-> 1,
          llm |-> IF o.scrape = "content" THEN 1 ELSE 0]

\* a research that hands the page to the analysis call whatever the scrape
\* returned
ToolResearchCompanyAlwaysAnalyzes(company_name, o) ==
    IF o.search = "raise"
    THEN [raised |-> TRUE, company |-> None, search |-> 1, scrape |-> 0, llm |-> 0]
    ELSE IF o.search \in {"empty", "nourl"}
    THEN [raised |-> FALSE, company |-> None, search |-> 1, scrape |-> 0, llm |-> 0]
    ELSE IF o.scrape = "raise"
    THEN [raised |-> TRUE, company |-> None, search |-> 1, scrape |-> 1, llm |-> 0]
    ELSE [raised |-> FALSE,
          company |-> Some(ResearchedRecord(company_name,
                                            [o EXCEPT !.scrape = "content"])),
          search |-> 1, scrape |-> 1, llm |-> 1]

\* _tool_research_company(company_name)
ToolResearchCompany(company_name, o) ==
    IF o.search = "raise"
    THEN [raised |-> TRUE, company |-> None, search |-> 1, scrape |-> 0, llm |-> 0]
    ELSE IF o.search \in {"empty", "nourl"}
    THEN [raised |-> FALSE, company |-> None, search |-> 1, scrape |-> 0, llm |-> 0]
    ELSE IF o.scrape = "raise"
    THEN [raised |-> TRUE, company |-> None, search |-> 1, scrape |-> 1, llm |-> 0]
    ELSE [raised |-> FALSE,
          company |-> Some(ResearchedRecord(company_name, o)),
          search |-> 1, scrape |-> 1,
          llm |-> IF o.scrape = "content" THEN 1 ELSE 0]

RECURSIVE ResearchLoop(_, _, _)
\* the for loop of the research_company branch, from name i on: acc holds the
\* records appended so far, researched_count and the calls made
ResearchLoop(company_names, os, acc) ==
    LET i == acc.i IN
    IF i > Len(company_names) THEN acc
    ELSE LET r == ToolResearchCompany(company_names[i], os[i])
             calls == [acc EXCEPT !.search = @ + r.search,
                                  !.scrape = @ + r.scrape,
                                  !.llm = @ + r.llm]
         IN  IF r.raised THEN [calls EXCEPT !.raised = TRUE]
             ELSE IF r.company # None
             THEN ResearchLoop(company_names, os,
                    [calls EXCEPT !.i = i + 1,
                                  !.appended = Append(@, r.company[1]),
                                  !.researched_count = @ + 1])
             ELSE ResearchLoop(company_names, os, [calls EXCEPT !.i = i + 1])

\* an analyze handler without the check for an empty list
ToolAnalyzeCompaniesNoGuard(researched, o) ==
    IF o.call = "raise"
    THEN [raised |-> TRUE, value |-> None, llm |-> 1]
    ELSE [raised |-> FALSE, value |-> o.content, llm |-> 1]

\* _tool_analyze_companies(state): the sentinel without a model call when
\* nothing is researched, else the content of the recommendation call (o.call
\* is "raise" or "ok", o.content the Optional text the model returned)
ToolAnalyzeCompanies(researched, o) ==
    IF researched = <<>>
    THEN [raised |-> FALSE, value |-> Some("No companies researched yet."), llm |-> 0]
    ELSE IF o.call = "raise"
    THEN [raised |-> TRUE, value |-> None, llm |-> 1]
    ELSE [raised |-> FALSE, value |-> o.content, llm |-> 1]

RECURSIVE ScrapeLoop(_, _)
\* the for loop of _tool_search_tools over search_results.web, from result
\* acc.i on: a result without URL is not scraped, a scrape may raise
ScrapeLoop(results, acc) ==
    LET i == acc.i IN
    IF i > Len(results) THEN acc
    ELSE IF results[i].url = "none"
    THEN ScrapeLoop(results, [acc EXCEPT !.i = i + 1])
    ELSE IF results[i].scrape = "raise"
    THEN [acc EXCEPT !.raised = TRUE, !.scrape = @ + 1]
    ELSE ScrapeLoop(results, [acc EXCEPT !.i = i + 1, !.scrape = @ + 1])

RECURSIVE ToolNamesKeepsBlanks(_)
\* a parse that trims the lines but keeps the blank ones
ToolNamesKeepsBlanks(lines) ==
    IF lines = <<>> THEN <<>>
    ELSE <<Str(Strip(Head(lines)))>> \o ToolNamesKeepsBlanks(Tail(lines))

RECURSIVE ToolNames(_)
\* [name.strip() for name in response.strip().split("\n") if name.strip()]
ToolNames(lines) ==
    IF lines = <<>> THEN <<>>
    ELSE IF Strip(Head(lines)) = <<>> THEN ToolNames(Tail(lines))
    ELSE <<Str(Strip(Head(lines)))>> \o ToolNames(Tail(lines))

\* the tool_names[:5] of _tool_search_tools
ExtractLimit == 5

\* a search handler whose extraction call is not inside a try
ToolSearchToolsUncaught(o) ==
    IF o.search = "raise"
    THEN [raised |-> TRUE, tools |-> <<>>, search |-> 1, scrape |-> 0, llm |-> 0]
    ELSE LET sc == ScrapeLoop(o.results, [i |-> 1, raised |-> FALSE, scrape |-> 0])
         IN  [raised |-> sc.raised \/ o.extraction = "fail",
              tools |-> IF ~sc.raised /\ o.extraction = "ok"
                        THEN Take(ToolNames(o.response), ExtractLimit)
                        ELSE <<>>,
              search |-> 1, scrape |-> sc.scrape,
              llm |-> IF sc.raised THEN 0 ELSE 1]

\* _tool_search_tools(query, num_results): o.search is "raise" or "ok" with
\* o.results, o.extraction is "fail" (the call or its parsing raises) or "ok"
\* with o.response, the lines of the model's text
ToolSearchTools(o) ==
    IF o.search = "raise"
    THEN [raised |-> TRUE, tools |-> <<>>, search |-> 1, scrape |-> 0, llm |-> 0]
    ELSE LET sc == ScrapeLoop(o.results, [i |-> 1, raised |-> FALSE, scrape |-> 0])
         IN  IF sc.raised
             THEN [raised |-> TRUE, tools |-> <<>>, search |-> 1,
                   scrape |-> sc.scrape, llm |-> 0]
             ELSE [raised |-> FALSE,
                   tools |-> IF o.extraction = "ok"
                             THEN Take(ToolNames(o.response), ExtractLimit)
                             ELSE <<>>,
                   search |-> 1, scrape |-> sc.scrape, llm |-> 1]

-----------------------------------------------------------------------------
(* workflow.py: agent_decision_step *)

\* an except branch that forgets the flag
HandleExceptionNoFlag(st) ==
    [st EXCEPT !.conversation_history = Append(@, Message("assistant", Apology))]
\* an except branch that starts the history over with the apology
HandleExceptionClearsHistory(st) ==
    [st EXCEPT !.conversation_history = <<Message("assistant", Apology)>>,
               !.awaiting_user_input = TRUE]
\* an except branch that logs the apology as a tool result
HandleExceptionAsTool(st) ==
    [st EXCEPT !.conversation_history = Append(@, Message("tool", Apology)),
               !.awaiting_user_input = TRUE]

\* the except branch: the apology turn, and the flag
HandleException(st) ==
    [st EXCEPT !.conversation_history = Append(@, Message("assistant", Apology)),
               !.awaiting_user_input = TRUE]

\* the payload fields a decision has populated
Populated(d) ==
    {f \in {"message", "search_tools", "research_company",
            "analyze_companies", "end"} : d[f] # None}

RECURSIVE FoundNames(_, _)
\* the requested names for which the search service gave a URL
FoundNames(company_names, os) ==
    IF company_names = <<>> THEN <<>>
    ELSE (IF Head(os).search \in {"url", "meta_url"}
          THEN <<Head(company_names)>> ELSE <<>>)
         \o FoundNames(Tail(company_names), Tail(os))

\* What a step reports of itself: the decision's kind and populated payloads,
\* whether the step took the except branch and why ("call": the decision
\* call, "validation": the decision's parsing, "payload": a branch's assert,
\* "handler": a call made by the handler, "message": building a turn), the
\* handler whose branch ran past its assert, the calls the handler made, and
\* what the services answered it (the names requested and those with a URL,
\* the outcome of the extraction call, the outcomes of each name's research).
\* response is the lines of the extraction model's text, tools what a search
\* handler returned, text the recommendation an analyze handler returned,
\* line the line read at a prompt, discarded the length of the history a
\* start replaced.
StepInfo(resp, env, failed, cause, handler, search, scrape, llm) ==
    [op |-> "decision",
     dtype |-> IF resp.call = "ok" THEN resp.decision.decision_type ELSE "none",
     populated |-> IF resp.call = "ok" THEN Populated(resp.decision) ELSE {},
     failed |-> failed, cause |-> cause, handler |-> handler,
     search |-> search, scrape |-> scrape, llm |-> llm,
     request |-> IF handler = "research_company"
                 THEN resp.decision.research_company[1].company_names
                 ELSE <<>>,
     found |-> IF handler = "research_company"
               THEN FoundNames(resp.decision.research_company[1].company_names,
                               env.research_company)
               ELSE <<>>,
     extraction |-> IF handler = "search_tools" /\ llm = 1
                    THEN env.search_tools.extraction ELSE "none",
     outcomes |-> IF handler = "research_company"
                  THEN env.research_company ELSE <<>>,
     response |-> IF handler = "search_tools" /\ llm = 1
                         /\ env.search_tools.extraction = "ok"
                  THEN env.search_tools.response ELSE <<>>,
     tools |-> <<>>, text |-> None, line |-> <<>>, discarded |-> 0]

\* the respond / ask_question branch
RespondBranch(st, resp, env) ==
    LET d == resp.decision IN
    IF d.message = None
    THEN [st |-> HandleException(st),
          info |-> StepInfo(resp, env, TRUE, "payload", "none", 0, 0, 0)]
    ELSE [st |-> [st EXCEPT
                    !.conversation_history =
                        Append(@, Message("assistant", d.message[1])),
                    !.awaiting_user_input = TRUE],
          info |-> StepInfo(resp, env, FALSE, "none", "respond", 0, 0, 0)]

RECURSIVE NewOnly(_, _)
\* have, followed by the names of seq it does not hold yet
NewOnly(seq, have) ==
    IF seq = <<>> THEN have
    ELSE IF \E k \in 1..Len(have) : have[k] = Head(seq)
    THEN NewOnly(Tail(seq), have)
    ELSE NewOnly(Tail(seq), Append(have, Head(seq)))

\* a search_tools branch that skips the names it already holds
SearchBranchDedup(st, resp, env) ==
    LET d == resp.decision
        r == ToolSearchTools(env.search_tools)
    IN
    IF d.search_tools = None
    THEN [st |-> HandleException(st),
          info |-> StepInfo(resp, env, TRUE, "payload", "none", 0, 0, 0)]
    ELSE IF r.raised
    THEN [st |-> HandleException(st),
          info |-> StepInfo(resp, env, TRUE, "handler", "search_tools",
                            r.search, r.scrape, r.llm)]
    ELSE [st |-> [st EXCEPT
                    !.extracted_tools = NewOnly(r.tools, @),
                    !.conversation_history =
                        Append(@, Message("tool",
                            "Found tools: " \o Join(r.tools, ", ")))],
          info |-> [StepInfo(resp, env, FALSE, "none", "search_tools",
                             r.search, r.scrape, r.llm) EXCEPT !.tools = r.tools]]

\* the search_tools branch
SearchBranch(st, resp, env) ==
    LET d == resp.decision
        r == ToolSearchTools(env.search_tools)
    IN
    IF d.search_tools = None
    THEN [st |-> HandleException(st),
          info |-> StepInfo(resp, env, TRUE, "payload", "none", 0, 0, 0)]
    ELSE IF r.raised
    THEN [st |-> HandleException(st),
          info |-> StepInfo(resp, env, TRUE, "handler", "search_tools",
                            r.search, r.scrape, r.llm)]
    ELSE [st |-> [st EXCEPT
                    !.extracted_tools = @ \o r.tools,
                    !.conversation_history =
                        Append(@, Message("tool",
                            "Found tools: " \o Join(r.tools, ", ")))],
          info |-> [StepInfo(resp, env, FALSE, "none", "search_tools",
                             r.search, r.scrape, r.llm) EXCEPT !.tools = r.tools]]

\* the research_company branch
ResearchBranch(st, resp, env) ==
    LET d == resp.decision
        company_names == d.research_company[1].company_names
        r == ResearchLoop(company_names, env.research_company,
                          [i |-> 1, raised |-> FALSE, appended |-> <<>>,
                           researched_count |-> 0,
                           search |-> 0, scrape |-> 0, llm |-> 0])
        researched == [st EXCEPT !.researched_companies = @ \o r.appended]
    IN
    IF d.research_company = None
    THEN [st |-> HandleException(st),
          info |-> StepInfo(resp, env, TRUE, "payload", "none", 0, 0, 0)]
    ELSE IF r.raised
    THEN [st |-> HandleException(researched),
          info |-> StepInfo(resp, env, TRUE, "handler", "research_company",
                            r.search, r.scrape, r.llm)]
    ELSE [st |-> [researched EXCEPT
                    !.conversation_history =
                        Append(@, Message("tool",
                            "Researched " \o ToString(r.researched_count)
                            \o "/" \o ToString(Len(company_names))
                            \o " companies: " \o Join(company_names, ", ")))],
          info |-> StepInfo(resp, env, FALSE, "none", "research_company",
                            r.search, r.scrape, r.llm)]

\* an analyze_companies branch that does not keep the recommendation
AnalyzeBranchNotStored(st, resp, env) ==
    LET d == resp.decision
        r == ToolAnalyzeCompanies(st.researched_companies, env.analyze_companies)
        logged == [st EXCEPT
                     !.conversation_history =
                         Append(@, Message("tool", "Analysis complete"))]
    IN
    IF d.analyze_companies = None
    THEN [st |-> HandleException(st),
          info |-> StepInfo(resp, env, TRUE, "payload", "none", 0, 0, 0)]
    ELSE IF r.raised
    THEN [st |-> HandleException(st),
          info |-> StepInfo(resp, env, TRUE, "handler", "analyze_companies",
                            0, 0, r.llm)]
    ELSE IF r.value = None
    THEN [st |-> HandleException(logged),
          info |-> StepInfo(resp, env, TRUE, "message", "analyze_companies",
                            0, 0, r.llm)]
    ELSE [st |-> [logged EXCEPT
                    !.conversation_history =
                        Append(@, Message("assistant", r.value[1])),
                    !.awaiting_user_input = TRUE],
          info |-> [StepInfo(resp, env, FALSE, "none", "analyze_companies",
                             0, 0, r.llm) EXCEPT !.text = r.value]]

\* the analyze_companies branch: the second Message(...) raises when the
\* model returned no text (content is a required str)
AnalyzeBranch(st, resp, env) ==
    LET d == resp.decision
        r == ToolAnalyzeCompanies(st.researched_companies, env.analyze_companies)
        logged == [st EXCEPT
                     !.analysis = r.value,
                     !.conversation_history =
                         Append(@, Message("tool", "Analysis complete"))]
    IN
    IF d.analyze_companies = None
    THEN [st |-> HandleException(st),
          info |-> StepInfo(resp, env, TRUE, "payload", "none", 0, 0, 0)]
    ELSE IF r.raised
    THEN [st |-> HandleException(st),
          info |-> StepInfo(resp, env, TRUE, "handler", "analyze_companies",
                            0, 0, r.llm)]
    ELSE IF r.value = None
    THEN [st |-> HandleException(logged),
          info |-> StepInfo(resp, env, TRUE, "message", "analyze_companies",
                            0, 0, r.llm)]
    ELSE [st |-> [logged EXCEPT
                    !.conversation_history =
                        Append(@, Message("assistant", r.value[1])),
                    !.awaiting_user_input = TRUE],
          info |-> [StepInfo(resp, env, FALSE, "none", "analyze_companies",
                             0, 0, r.llm) EXCEPT !.text = r.value]]

\* an end branch without its assert
EndBranchNoAssert(st, resp, env) ==
    [st |-> [st EXCEPT !.conversation_complete = TRUE],
     info |-> StepInfo(resp, env, FALSE, "none", "end", 0, 0, 0)]
\* an end branch that also says goodbye
EndBranchSaysGoodbye(st, resp, env) ==
    LET d == resp.decision IN
    IF d.end = None
    THEN [st |-> HandleException(st),
          info |-> StepInfo(resp, env, TRUE, "payload", "none", 0, 0, 0)]
    ELSE [st |-> [st EXCEPT
                    !.conversation_history = Append(@, Message("assistant", "Goodbye")),
                    !.conversation_complete = TRUE],
          info |-> StepInfo(resp, env, FALSE, "none", "end", 0, 0, 0)]

\* the end branch
EndBranch(st, resp, env) ==
    LET d == resp.decision IN
    IF d.end = None
    THEN [st |-> HandleException(st),
          info |-> StepInfo(resp, env, TRUE, "payload", "none", 0, 0, 0)]
    ELSE [st |-> [st EXCEPT !.conversation_complete = TRUE],
          info |-> StepInfo(resp, env, FALSE, "none", "end", 0, 0, 0)]

\* agent_decision_step(state): resp is the decision call's outcome ("raise":
\* the call or json.loads raises; "ok" with the decoded decision), env the
\* outcomes of the calls the handlers make
AgentDecisionStep(st, resp, env) ==
    IF resp.call = "raise"
    THEN [st |-> HandleException(st),
          info |-> StepInfo(resp, env, TRUE, "call", "none", 0, 0, 0)]
    ELSE IF ~ValidDecision(resp.decision)
    THEN [st |-> HandleException(st),
          info |-> StepInfo(resp, env, TRUE, "validation", "none", 0, 0, 0)]
    ELSE LET t == resp.decision.decision_type IN
         IF t \in {"respond", "ask_question"} THEN RespondBranch(st, resp, env)
         ELSE IF t = "search_tools" THEN SearchBranch(st, resp, env)
         ELSE IF t = "research_company" THEN ResearchBranch(st, resp, env)
         ELSE IF t = "analyze_companies" THEN AnalyzeBranch(st, resp, env)
         ELSE EndBranch(st, resp, env)

-----------------------------------------------------------------------------
(* workflow.py: the model input of a decision step *)

\* prompts.AGENT_SYSTEM_PROMPT (a constant text, named here by its name)
AgentSystemPrompt == "AGENT_SYSTEM_PROMPT"

RECURSIVE CompanyNames(_)
\* (c.name for c in state.researched_companies)
CompanyNames(companies) ==
    IF companies = <<>> THEN <<>>
    ELSE <<Head(companies).name>> \o CompanyNames(Tail(companies))

\* the context summary's list of candidates: extracted_tools[:5]
SummaryLimit == 5

\* the researched count from which the summary proposes to analyze
AnalyzeThreshold == 2

\* _build_context_summary(state); the arrow of the two hints is written "->"
BuildContextSummary(st) ==
    LET tools ==
            IF st.extracted_tools # <<>>
            THEN <<"Extracted Tools: "
                   \o Join(Take(st.extracted_tools, SummaryLimit), ", ")
                   \o " \n-> Next step: Research these tools using 'research_company'">>
            ELSE <<>>
        researched ==
            IF st.researched_companies # <<>>
            THEN <<"Researched Companies: "
                   \o Join(CompanyNames(st.researched_companies), ", ")
                   \o " \n-> Next step: "
                   \o (IF Len(st.researched_companies) >= AnalyzeThreshold
                       THEN "Analyze if enough data"
                       ELSE "Research more companies")>>
            ELSE <<>>
        done ==
            IF st.analysis # None /\ st.analysis # Some("")
            THEN <<"Analysis Complete: Yes">>
            ELSE <<>>
        summary == tools \o researched \o done
    IN  IF summary # <<>> THEN Join(summary, "\n")
        ELSE "No previous actions taken"

RECURSIVE HistoryMessagesSkipTool(_)
\* a loop that copies only the user and assistant turns
HistoryMessagesSkipTool(history) ==
    IF history = <<>> THEN <<>>
    ELSE LET msg == Head(history)
             out == IF msg.role \in {"user", "assistant"}
                    THEN <<[role |-> msg.role, content |-> msg.content]>>
                    ELSE <<>>
         IN  out \o HistoryMessagesSkipTool(Tail(history))

RECURSIVE HistoryMessages(_)
\* the for loop of _build_llm_messages: a turn of a role other than the
\* three is not copied
HistoryMessages(history) ==
    IF history = <<>> THEN <<>>
    ELSE LET msg == Head(history)
             out == IF msg.role = "user"
                    THEN <<[role |-> "user", content |-> msg.content]>>
                    ELSE IF msg.role = "assistant"
                    THEN <<[role |-> "assistant", content |-> msg.content]>>
                    ELSE IF msg.role = "tool"
                    THEN <<[role |-> "system",
                            content |-> "[Tool Result] " \o msg.content]>>
                    ELSE <<>>
         IN  out \o HistoryMessages(Tail(history))

\* _build_llm_messages(state)
BuildLlmMessages(st) ==
    <<[role |-> "system", content |-> AgentSystemPrompt]>>
    \o HistoryMessages(st.conversation_history)
    \o <<[role |-> "system",
          content |-> "Current Context:\n" \o BuildContextSummary(st)]>>

-----------------------------------------------------------------------------
(* workflow.py, prompts.py: the recommendation prompt *)

JsonStr(str) == "\"" \o str \o "\""

JsonOptStr(o) == IF o = None THEN "null" ELSE JsonStr(o[1])

JsonOptBool(o) == IF o = None THEN "null" ELSE IF o[1] THEN "true" ELSE "false"

JsonList(seq) ==
    "[" \o Join([i \in 1..Len(seq) |-> JsonStr(seq[i])], ", ") \o "]"

\* company.json(): the fields of CompanyInfo in their order
CompanyJson(c) ==
    "{\"name\": " \o JsonStr(c.name)
    \o ", \"description\": " \o JsonStr(c.description)
    \o ", \"website\": " \o JsonStr(c.website)
    \o ", \"pricing_model\": " \o JsonOptStr(c.pricing_model)
    \o ", \"is_open_source\": " \o JsonOptBool(c.is_open_source)
    \o ", \"tech_stack\": " \o JsonList(c.tech_stack)
    \o ", \"competitors\": " \o JsonList(c.competitors)
    \o ", \"api_available\": " \o JsonOptBool(c.api_available)
    \o ", \"language_support\": " \o JsonList(c.language_support)
    \o ", \"integration_capabilities\": " \o JsonList(c.integration_capabilities)
    \o ", \"developer_experience_rating\": "
    \o JsonOptStr(c.developer_experience_rating) \o "}"

\* ", ".join([company.json() for company in state.researched_companies])
CompanyData(companies) ==
    Join([i \in 1..Len(companies) |-> CompanyJson(companies[i])], ", ")

\* prompts.RECOMMENDATIONS_SYSTEM (a constant text, named here by its name)
RecommendationsSystem == "RECOMMENDATIONS_SYSTEM"

\* the closing lines of the prompt of recommendations_user (a constant text)
RecommendationAsk == "\n\nProvide a clear, structured recommendation covering: ..."

\* prompts.recommendations_user(researched_companies, user_context); the
\* first parameter is written researched_text
RecommendationsUser(researched_text, user_context) ==
    "User's Needs/Context: " \o user_context
    \o "\n\nResearched Tools Data:\n" \o researched_text
    \o RecommendationAsk

\* the messages _tool_analyze_companies sends: the first argument of
\* recommendations_user is state.current_query, the second company_data
RecommendationMessages(st) ==
    <<[role |-> "system", content |-> RecommendationsSystem],
      [role |-> "user",
       content |-> RecommendationsUser(st.current_query[1],
                                       CompanyData(st.researched_companies))]>>

-----------------------------------------------------------------------------
(* The inputs: what the model, the services and the user may answer *)

SearchToolsCall == [query |-> "db", num_results |-> 3, reasoning |-> "r"]
ResearchCompanyCall(ns) == [company_names |-> ns, reasoning |-> "r"]
AnalyzeCompaniesCall == [reasoning |-> "r"]
EndConversationCall == [reasoning |-> "r"]

PayloadFields == {"message", "search_tools", "research_company",
                  "analyze_companies", "end"}

\* the payload field a decision_type names
OwnField(t) == IF t \in {"respond", "ask_question"} THEN "message" ELSE t

\* d with payload field f populated by a sample payload
With(d, f) ==
    CASE f = "message" -> [d EXCEPT !.message = Some("Hi")]
      [] f = "search_tools" -> [d EXCEPT !.search_tools = Some(SearchToolsCall)]
      [] f = "research_company" ->
            [d EXCEPT !.research_company = Some(ResearchCompanyCall(<<"A">>))]
      [] f = "analyze_companies" ->
            [d EXCEPT !.analyze_companies = Some(AnalyzeCompaniesCall)]
      [] f = "end" -> [d EXCEPT !.end = Some(EndConversationCall)]

\* the company_names lists the model asks for
CompanyNameLists == {<<>>, <<"A">>, <<"B", "A">>, <<"A", "A">>}

\* decisions with exactly the payload their decision_type names
WellFormedDecisions ==
    {[AgentDecision(t) EXCEPT !.message = Some(m)] :
        t \in {"respond", "ask_question"}, m \in {"", "Hi"}}
    \cup {[AgentDecision("research_company") EXCEPT
             !.research_company = Some(ResearchCompanyCall(ns))] :
          ns \in CompanyNameLists}
    \cup {With(AgentDecision(t), t) :
          t \in {"search_tools", "analyze_companies", "end"}}

\* decisions with no payload at all, of the six kinds and of an unknown kind
EmptyDecisions == {AgentDecision(t) : t \in DecisionTypes \cup {"bogus"}}

\* a payload field other than the one a decision_type names
ExtraField(t) == IF OwnField(t) = "message" THEN "end" ELSE "message"

\* decisions that populate a payload of another kind, instead of their own
\* or in addition to it
MismatchedDecisions ==
    {With(AgentDecision(t), ExtraField(t)) : t \in DecisionTypes}
    \cup {With(With(AgentDecision(t), OwnField(t)), ExtraField(t)) :
            t \in DecisionTypes}

\* the outcomes of the decision call
Responses ==
    {[call |-> "raise", decision |-> AgentDecision("none")]}
    \cup {[call |-> "ok", decision |-> d] :
          d \in WellFormedDecisions \cup EmptyDecisions \cup MismatchedDecisions}

\* search results: with a URL (direct or under metadata) or without, and
\* what scraping the URL gives
Page == [url |-> "direct", scrape |-> "page"]
MetaPage == [url |-> "meta", scrape |-> "page"]
NoUrl == [url |-> "none", scrape |-> "none"]
NoText == [url |-> "direct", scrape |-> "none"]
ScrapeRaises == [url |-> "direct", scrape |-> "raise"]

\* texts of the extraction model, as lines of characters
SampleResponses ==
    { <<>>,
      << <<"A">> >>,
      << <<" ", "A", " ">>, <<>>, <<" ">>, <<"B">> >>,
      << <<"A">>, <<"B">>, <<"A">>, <<>>, <<"B">>, <<"A">>, <<"B">> >> }

SearchEnvs ==
    {[search |-> "raise", results |-> <<>>, extraction |-> "ok", response |-> <<>>],
     [search |-> "ok", results |-> <<Page, ScrapeRaises>>,
      extraction |-> "ok", response |-> <<>>],
     [search |-> "ok", results |-> <<>>, extraction |-> "fail", response |-> <<>>],
     [search |-> "ok", results |-> <<NoText, MetaPage>>,
      extraction |-> "fail", response |-> <<>>]}
    \cup {[search |-> "ok", results |-> <<NoUrl, Page>>,
           extraction |-> "ok", response |-> r] : r \in SampleResponses}

AnalyzeEnvs ==
    {[call |-> "raise", content |-> None],
     [call |-> "ok", content |-> None],
     [call |-> "ok", content |-> Some("Use A")]}

NoEnv ==
    [search_tools |-> [search |-> "raise", results |-> <<>>,
                       extraction |-> "ok", response |-> <<>>],
     research_company |-> <<>>,
     analyze_companies |-> [call |-> "raise", content |-> None]]

\* the outcomes sampled for the names after the first of a batch
LaterOutcomes ==
    {o \in ResearchOutcomes :
        \/ o.search \in {"raise", "empty"}
        \/ o.search = "url" /\ o.scrape = "content"}

\* the outcomes of the researches of a batch of n names; the batch stops at a
\* research that raises, so one outcome stands for all that could follow it
ResearchEnvs(n) ==
    {os \in [1..n -> ResearchOutcomes] :
        \A i \in 2..n :
            /\ os[i] \in LaterOutcomes
            /\ "raise" \in {os[i - 1].search, os[i - 1].scrape}
                  => os[i].search = "raise"}

\* the outcomes of the calls the handler of this decision would make
EnvsFor(resp) ==
    LET d == resp.decision IN
    IF resp.call = "raise" THEN {NoEnv}
    ELSE IF d.decision_type = "search_tools" /\ d.search_tools # None
    THEN {[NoEnv EXCEPT !.search_tools = e] : e \in SearchEnvs}
    ELSE IF d.decision_type = "research_company" /\ d.research_company # None
    THEN {[NoEnv EXCEPT !.research_company = os] :
            os \in ResearchEnvs(Len(d.research_company[1].company_names))}
    ELSE IF d.decision_type = "analyze_companies" /\ d.analyze_companies # None
    THEN {[NoEnv EXCEPT !.analyze_companies = e] : e \in AnalyzeEnvs}
    ELSE {NoEnv}

\* lines typed at a prompt, as characters
ExitLines ==
    { <<" ", "E", "x", "i", "t", " ">>,
      <<"Q", "U", "I", "T">>,
      <<"b", "y", "e">> }

\* lines typed at the prompt of main
QueryLines == ExitLines \cup { <<>>, <<" ">>, <<" ", "A", "?", " ">> }

\* lines typed at the prompt of run_conversation
ReplyLines == ExitLines \cup { <<>>, <<" ", "b", "y", "e", "s", "\t">> }

-----------------------------------------------------------------------------
(* The program *)

\* the AgentState held in the variables
State ==
    [conversation_history |-> conversation_history,
     current_query |-> current_query,
     extracted_tools |-> extracted_tools,
     researched_companies |-> researched_companies,
     awaiting_user_input |-> awaiting_user_input,
     analysis |-> analysis,
     conversation_complete |-> conversation_complete]

SetState(st) ==
    /\ conversation_history' = st.conversation_history
    /\ current_query' = st.current_query
    /\ extracted_tools' = st.extracted_tools
    /\ researched_companies' = st.researched_companies
    /\ awaiting_user_input' = st.awaiting_user_input
    /\ analysis' = st.analysis
    /\ conversation_complete' = st.conversation_complete

\* an operation that is no decision step
NoStep(op) ==
    [op |-> op, dtype |-> "none", populated |-> {}, failed |-> FALSE,
     cause |-> "none", handler |-> "none", search |-> 0, scrape |-> 0, llm |-> 0,
     request |-> <<>>, found |-> <<>>, extraction |-> "none",
     outcomes |-> <<>>, response |-> <<>>, tools |-> <<>>, text |-> None,
     line |-> <<>>, discarded |-> 0]
\* a comparison that forgets lower()
IsExitCaseSensitive(cs) == Str(cs) \in ExitKeywords

\* user_input.lower() in {"exit", "quit", "bye"}
IsExit(cs) == Str(Lower(cs)) \in ExitKeywords

\* the variant before any run: the state of a bare AgentState()
NoTwin == [st |-> DefaultState, messages |-> <<>>, pc |-> "main_prompt"]

Init ==
    /\ pc = "main_prompt"
    /\ conversation_history = DefaultState.conversation_history
    /\ current_query = DefaultState.current_query
    /\ extracted_tools = DefaultState.extracted_tools
    /\ researched_companies = DefaultState.researched_companies
    /\ awaiting_user_input = DefaultState.awaiting_user_input
    /\ analysis = DefaultState.analysis
    /\ conversation_complete = DefaultState.conversation_complete
    /\ steps = 0
    /\ llm_calls = 0
    /\ messages = <<>>
    /\ last = NoStep("init")
    /\ twin = NoTwin
    /\ search_results = <<>>
    /\ all_content = ""

\* main: a line at the outer prompt; the report of a start holds the line and
\* the number of turns of the state it replaces
MainPrompt(raw) ==
    LET query == Strip(raw) IN
    /\ pc = "main_prompt"
    /\ IF IsExit(query)
       THEN /\ pc' = "exited"
            /\ last' = NoStep("main_exit")
            /\ UNCHANGED <<state_vars, steps, llm_calls, messages, twin, search_results, all_content>>
       ELSE IF query # <<>>
       THEN /\ SetState(AgentState(Str(query)))
            /\ pc' = "loop"
            /\ steps' = 0
            /\ llm_calls' = 0
            /\ messages' = <<>>
            /\ UNCHANGED <<twin, search_results, all_content>>
            /\ last' = [NoStep("start") EXCEPT
                          !.line = raw,
                          !.discarded = Len(conversation_history)]
       ELSE /\ last' = NoStep("main_blank")
            /\ UNCHANGED <<pc, state_vars, steps, llm_calls, messages, twin, search_results, all_content>>

\* a loop that does not test the flag
LoopConditionIgnored(st) == TRUE

\* the condition of the while loop of run_conversation
LoopCondition(st) == ~st.conversation_complete
\* a loop that reads a line after every step
BlocksForInputAlways(st) == ~st.conversation_complete
\* a loop that never reads a line
BlocksForInputNever(st) == FALSE

\* the condition under which run_conversation reads a line
BlocksForInput(st) == st.awaiting_user_input /\ ~st.conversation_complete

\* run_conversation: one pass of the loop body up to the prompt
DecisionStep(resp, env) ==
    /\ pc = "loop"
    /\ LoopCondition(State)
    /\ steps < MaxSteps
    /\ messages' = BuildLlmMessages(State)
    /\ LET r == AgentDecisionStep(State, resp, env) IN
         /\ SetState(r.st)
         /\ last' = r.info
         /\ steps' = steps + 1
         /\ llm_calls' = llm_calls + 1 + r.info.llm
         /\ pc' = IF BlocksForInput(r.st) THEN "input" ELSE "loop"
    /\ UNCHANGED <<twin, search_results, all_content>>

\* a user turn appended without clearing the flag
AppendUserTurnKeepsFlag(st, text) ==
    [st EXCEPT !.conversation_history = Append(@, Message("user", text))]

\* run_conversation: the user's line becomes a turn, the flag is cleared
AppendUserTurn(st, text) ==
    [st EXCEPT !.conversation_history = Append(@, Message("user", text)),
               !.awaiting_user_input = FALSE]

\* run_conversation: a line at the inner prompt; after an exit keyword the
\* report of the last decision step is kept
UserInput(raw) ==
    LET user_input == Strip(raw) IN
    /\ pc = "input"
    /\ IF IsExit(user_input)
       THEN /\ conversation_complete' = TRUE
            /\ pc' = "return"
            /\ last' = [last EXCEPT !.op = "exit", !.line = raw]
            /\ UNCHANGED <<conversation_history, current_query, extracted_tools,
                           researched_companies, awaiting_user_input, analysis,
                           steps, llm_calls, messages, twin, search_results, all_content>>
       ELSE /\ SetState(AppendUserTurn(State, Str(user_input)))
            /\ pc' = "loop"
            /\ last' = [NoStep("user") EXCEPT !.line = raw]
            /\ UNCHANGED <<steps, llm_calls, messages, twin, search_results, all_content>>

\* run_conversation returns (the loop condition fails, or after the break)
\* and main prints the summary
Return ==
    /\ \/ pc = "loop" /\ ~LoopCondition(State)
       \/ pc = "return"
    /\ pc' = "main_prompt"
    /\ last' = NoStep("return")
    /\ UNCHANGED <<state_vars, steps, llm_calls, messages, twin, search_results, all_content>>

Next ==
    \/ \E raw \in QueryLines : MainPrompt(raw)
    \/ \E resp \in Responses : \E env \in EnvsFor(resp) : DecisionStep(resp, env)
    \/ \E raw \in ReplyLines : UserInput(raw)
    \/ Return

Spec == Init /\ [][Next]_vars

-----------------------------------------------------------------------------
(* _build_llm_messages on its own: every history and context as its input *)

\* the longest history given to _build_llm_messages
MaxHistory == 3

Roles == {"user", "assistant", "tool"}

TurnTexts == {"x", "y"}

\* every history of at most MaxHistory turns
Histories ==
    UNION {[1..n -> {Message(r, c) : r \in Roles, c \in TurnTexts}] :
             n \in 0..MaxHistory}

SixTools == <<"A", "B", "C", "D", "E", "F">>

\* what the summary is built from: candidates, researched records, analysis
BuildContexts ==
    {[extracted_tools |-> e, researched_companies |-> r, analysis |-> a] :
        e \in {<<>>, SixTools},
        r \in {<<>>,
                <<CompanyInfo("A", Url("A"))>>,
                <<CompanyInfo("A", Url("A")), CompanyInfo("B", Url("B"))>>},
        a \in {None, Some("Use A")}}

\* a state handed to _build_llm_messages
InitBuild ==
    /\ pc = "build"
    /\ conversation_history \in Histories
    /\ current_query = Some("A?")
    /\ \E c \in BuildContexts :
         /\ extracted_tools = c.extracted_tools
         /\ researched_companies = c.researched_companies
         /\ analysis = c.analysis
    /\ awaiting_user_input = FALSE
    /\ conversation_complete = FALSE
    /\ steps = 0
    /\ llm_calls = 0
    /\ messages = <<>>
    /\ last = NoStep("init")
    /\ twin = NoTwin
    /\ search_results = <<>>
    /\ all_content = ""

\* messages = self._build_llm_messages(state)
Rebuild ==
    /\ pc = "build"
    /\ messages' = BuildLlmMessages(State)
    /\ pc' = "built"
    /\ last' = NoStep("build")
    /\ UNCHANGED <<state_vars, steps, llm_calls, twin, search_results, all_content>>

\* the messages of _tool_analyze_companies for a state with researched tools
Recommend ==
    /\ pc = "build"
    /\ researched_companies # <<>>
    /\ messages' = RecommendationMessages(State)
    /\ pc' = "prompted"
    /\ last' = NoStep("recommend")
    /\ UNCHANGED <<state_vars, steps, llm_calls, twin, search_results, all_content>>

NextBuild == Rebuild \/ Recommend

SpecBuild == InitBuild /\ [][NextBuild]_vars

-----------------------------------------------------------------------------
(* run_conversation without a horizon: the chain of tool steps *)

\* how many of the latest turns, candidates and records the chain keeps
ChainWindow == 1

\* the last n elements of seq
LastN(seq, n) ==
    IF Len(seq) <= n THEN seq ELSE SubSeq(seq, Len(seq) - n + 1, Len(seq))

\* a state with only the latest turns, candidates and records kept; no list
\* that holds something becomes empty, and the flags are as they were
Forget(st) ==
    [st EXCEPT
       !.conversation_history = LastN(@, ChainWindow),
       !.extracted_tools = LastN(@, ChainWindow),
       !.researched_companies = LastN(@, ChainWindow)]

\* the decisions the chain is given: a reply, the two tool actions, the
\* analysis, the end, and a call that raises
ChainResponses ==
    {r \in Responses :
        \/ r.call = "raise"
        \/ /\ r.decision \in WellFormedDecisions
           /\ r.decision.message \in {None, Some("Hi")}
           /\ r.decision.research_company
                 \in {None, Some(ResearchCompanyCall(<<"A">>))}}

\* the while loop of run_conversation has no counter: a pass of the loop
\* body is taken whenever the conversation is not complete.  The step is the
\* one of DecisionStep; what it leaves is kept up to ChainWindow entries, and
\* the counts of steps and calls are not kept.
ChainStep(resp, env) ==
    /\ pc = "loop"
    /\ LoopCondition(State)
    /\ messages' = BuildLlmMessages(State)
    /\ LET r == AgentDecisionStep(State, resp, env) IN
         /\ SetState(Forget(r.st))
         /\ last' = r.info
         /\ pc' = IF BlocksForInput(r.st) THEN "input" ELSE "loop"
    /\ UNCHANGED <<steps, llm_calls, twin, search_results, all_content>>

\* the steps the program takes by itself (a line is the user's to give)
ProgramStep ==
    \/ \E resp \in ChainResponses : \E env \in EnvsFor(resp) : ChainStep(resp, env)
    \/ Return

NextChain ==
    \/ \E raw \in QueryLines : MainPrompt(raw)
    \/ \E resp \in ChainResponses : \E env \in EnvsFor(resp) : ChainStep(resp, env)
    \/ \E raw \in ReplyLines : UserInput(raw)
    \/ Return

\* the program does not stop while it has a step to take
SpecChain == Init /\ [][NextChain]_vars /\ WF_vars(ProgramStep)

-----------------------------------------------------------------------------
(* The variant of workflow-googleaistudio.py, run beside the one of
   workflow.py on the same lines, model outputs and adapter results *)

\* the message classes of langchain_core.messages and the chat roles they
\* stand for
RoleOfKind(kind) ==
    IF kind = "HumanMessage" THEN "user"
    ELSE IF kind = "AIMessage" THEN "assistant"
    ELSE "system"

RECURSIVE HistoryMessagesGToolAsHuman(_)
\* a loop that hands tool results over as human messages
HistoryMessagesGToolAsHuman(history) ==
    IF history = <<>> THEN <<>>
    ELSE LET msg == Head(history)
             out == IF msg.role \in {"user", "tool"}
                    THEN <<[kind |-> "HumanMessage", content |-> msg.content]>>
                    ELSE IF msg.role = "assistant"
                    THEN <<[kind |-> "AIMessage", content |-> msg.content]>>
                    ELSE <<>>
         IN  out \o HistoryMessagesGToolAsHuman(Tail(history))

RECURSIVE HistoryMessagesG(_)
\* the for loop of _build_llm_messages of the variant
HistoryMessagesG(history) ==
    IF history = <<>> THEN <<>>
    ELSE LET msg == Head(history)
             out == IF msg.role = "user"
                    THEN <<[kind |-> "HumanMessage", content |-> msg.content]>>
                    ELSE IF msg.role = "assistant"
                    THEN <<[kind |-> "AIMessage", content |-> msg.content]>>
                    ELSE IF msg.role = "tool"
                    THEN <<[kind |-> "SystemMessage",
                            content |-> "[Tool Result] " \o msg.content]>>
                    ELSE <<>>
         IN  out \o HistoryMessagesG(Tail(history))

\* _build_llm_messages(state) of the variant; _build_context_summary has
\* the same text in both files
BuildLlmMessagesG(st) ==
    <<[kind |-> "SystemMessage", content |-> AgentSystemPrompt]>>
    \o HistoryMessagesG(st.conversation_history)
    \o <<[kind |-> "SystemMessage",
          content |-> "Current Context:\n" \o BuildContextSummary(st)]>>

\* agent_decision_step of the variant: structured_llm.invoke(messages)
\* returns an AgentDecision or raises inside the try (a failed call, or an
\* output that does not validate); the branches and the tool handlers have
\* the same text as in workflow.py
AgentDecisionStepG(st, resp, env) ==
    IF resp.call = "raise" \/ ~ValidDecision(resp.decision)
    THEN HandleException(st)
    ELSE LET t == resp.decision.decision_type IN
         IF t \in {"respond", "ask_question"} THEN RespondBranch(st, resp, env).st
         ELSE IF t = "search_tools" THEN SearchBranch(st, resp, env).st
         ELSE IF t = "research_company" THEN ResearchBranch(st, resp, env).st
         ELSE IF t = "analyze_companies" THEN AnalyzeBranch(st, resp, env).st
         ELSE EndBranch(st, resp, env).st

\* main: a line at the outer prompt, given to both variants
TwinStart(raw) ==
    LET query == Strip(raw) IN
    /\ pc = "main_prompt"
    /\ IF IsExit(query)
       THEN /\ pc' = "exited"
            /\ twin' = [twin EXCEPT !.pc = "exited"]
            /\ last' = NoStep("main_exit")
            /\ UNCHANGED <<state_vars, steps, llm_calls, messages, search_results, all_content>>
       ELSE IF query # <<>>
       THEN /\ SetState(AgentState(Str(query)))
            /\ twin' = [st |-> AgentState(Str(query)), messages |-> <<>>,
                        pc |-> "loop"]
            /\ pc' = "loop"
            /\ steps' = 0
            /\ messages' = <<>>
            /\ last' = NoStep("start")
            /\ UNCHANGED <<llm_calls, search_results, all_content>>
       ELSE /\ last' = NoStep("main_blank")
            /\ UNCHANGED <<pc, state_vars, steps, llm_calls, messages, twin, search_results, all_content>>

\* one pass of the loop body in both variants, on the same model output
\* and the same adapter results
TwinStep(resp, env) ==
    /\ pc = "loop"
    /\ LoopCondition(State)
    /\ steps < MaxSteps
    /\ messages' = BuildLlmMessages(State)
    /\ LET r == AgentDecisionStep(State, resp, env)
           g == AgentDecisionStepG(twin.st, resp, env)
       IN  /\ SetState(r.st)
           /\ pc' = IF BlocksForInput(r.st) THEN "input" ELSE "loop"
           /\ twin' = [st |-> g, messages |-> BuildLlmMessagesG(twin.st),
                       pc |-> IF BlocksForInput(g) THEN "input" ELSE "loop"]
    /\ steps' = steps + 1
    /\ last' = NoStep("step")
    /\ UNCHANGED <<llm_calls, search_results, all_content>>

\* a line at the inner prompt, given to both variants
TwinInput(raw) ==
    LET user_input == Strip(raw) IN
    /\ pc = "input"
    /\ IF IsExit(user_input)
       THEN /\ conversation_complete' = TRUE
            /\ pc' = "return"
            /\ twin' = [twin EXCEPT !.st.conversation_complete = TRUE,
                                    !.pc = "return"]
            /\ last' = NoStep("exit")
            /\ UNCHANGED <<conversation_history, current_query, extracted_tools,
                           researched_companies, awaiting_user_input, analysis,
                           steps, llm_calls, messages, search_results, all_content>>
       ELSE /\ SetState(AppendUserTurn(State, Str(user_input)))
            /\ pc' = "loop"
            /\ twin' = [twin EXCEPT !.st = AppendUserTurn(@, Str(user_input)),
                                    !.pc = "loop"]
            /\ last' = NoStep("user")
            /\ UNCHANGED <<steps, llm_calls, messages, search_results, all_content>>

\* both runs return to main
TwinReturn ==
    /\ \/ pc = "loop" /\ ~LoopCondition(State)
       \/ pc = "return"
    /\ pc' = "main_prompt"
    /\ twin' = [twin EXCEPT !.pc = "main_prompt"]
    /\ last' = NoStep("return")
    /\ UNCHANGED <<state_vars, steps, llm_calls, messages, search_results, all_content>>

NextTwin ==
    \/ \E raw \in QueryLines : TwinStart(raw)
    \/ \E resp \in Responses : \E env \in EnvsFor(resp) : TwinStep(resp, env)
    \/ \E raw \in ReplyLines : TwinInput(raw)
    \/ TwinReturn

SpecTwin == Init /\ [][NextTwin]_vars

-----------------------------------------------------------------------------
(* The content _tool_search_tools collects for the extraction model *)

\* scraped.markdown[:1500]
PageLimit == 1500

\* the search results modelled in one search
MaxResults == 2

RECURSIVE Repeat(_, _)
\* the text made of n times the character c
Repeat(c, n) ==
    IF n = 0 THEN ""
    ELSE LET h == Repeat(c, n \div 2)
         IN  IF n % 2 = 0 THEN h \o h ELSE h \o h \o c

\* a page text of n characters; its last character differs from the others
PageText(n) == IF n = 0 THEN "" ELSE Repeat("a", n - 1) \o "b"

\* page texts: empty, short, of the limit, and longer than the limit
PageTexts == {PageText(n) : n \in {0, 1, PageLimit, PageLimit + 1, PageLimit + 3}}

\* a search result: where its URL is, what scraping it gives ("raise", "none"
\* for no document, "page" for a document) and the document's markdown
ContentResults ==
    {[url |-> "none", scrape |-> "none", markdown |-> ""]}
    \cup {[url |-> u, scrape |-> sc, markdown |-> ""] :
            u \in {"direct", "meta"}, sc \in {"raise", "none"}}
    \cup {[url |-> u, scrape |-> "page", markdown |-> t] :
            u \in {"direct", "meta"}, t \in PageTexts}

\* search_results.web or []
ResultLists == UNION {[1..n -> ContentResults] : n \in 0..MaxResults}

RECURSIVE ContentLoopNoLimit(_, _)
\* a loop that adds the whole page
ContentLoopNoLimit(results, acc) ==
    LET i == acc.i IN
    IF i > Len(results) THEN acc
    ELSE IF results[i].url = "none"
    THEN ContentLoopNoLimit(results, [acc EXCEPT !.i = i + 1])
    ELSE IF results[i].scrape = "raise"
    THEN [acc EXCEPT !.raised = TRUE, !.scrape = @ + 1]
    ELSE IF results[i].scrape = "page" /\ results[i].markdown # ""
    THEN ContentLoopNoLimit(results,
            [acc EXCEPT !.i = i + 1, !.scrape = @ + 1,
                        !.all_content = @ \o results[i].markdown \o "\n\n"])
    ELSE ContentLoopNoLimit(results, [acc EXCEPT !.i = i + 1, !.scrape = @ + 1])

RECURSIVE ContentLoop(_, _)
\* the for loop of _tool_search_tools over search_results.web, from result
\* acc.i on: all_content += scraped.markdown[:1500] + "\n\n" for a result
\* with a URL whose scrape gives a document with markdown
ContentLoop(results, acc) ==
    LET i == acc.i IN
    IF i > Len(results) THEN acc
    ELSE IF results[i].url = "none"
    THEN ContentLoop(results, [acc EXCEPT !.i = i + 1])
    ELSE IF results[i].scrape = "raise"
    THEN [acc EXCEPT !.raised = TRUE, !.scrape = @ + 1]
    ELSE IF results[i].scrape = "page" /\ results[i].markdown # ""
    THEN ContentLoop(results,
            [acc EXCEPT !.i = i + 1, !.scrape = @ + 1,
                        !.all_content = @ \o Take(results[i].markdown, PageLimit)
                                          \o "\n\n"])
    ELSE ContentLoop(results, [acc EXCEPT !.i = i + 1, !.scrape = @ + 1])

InitContent ==
    /\ pc = "search"
    /\ conversation_history = DefaultState.conversation_history
    /\ current_query = DefaultState.current_query
    /\ extracted_tools = DefaultState.extracted_tools
    /\ researched_companies = DefaultState.researched_companies
    /\ awaiting_user_input = DefaultState.awaiting_user_input
    /\ analysis = DefaultState.analysis
    /\ conversation_complete = DefaultState.conversation_complete
    /\ steps = 0
    /\ llm_calls = 0
    /\ messages = <<>>
    /\ last = NoStep("init")
    /\ twin = NoTwin
    /\ search_results = <<>>
    /\ all_content = ""

\* search_results = self.firecrawl.search_companies(article_query, ...)
SearchCompanies(results) ==
    /\ pc = "search"
    /\ search_results' = results
    /\ pc' = "collect"
    /\ last' = NoStep("search")
    /\ UNCHANGED <<state_vars, steps, llm_calls, messages, twin, all_content>>

\* the loop over the results, up to the extraction messages; a scrape that
\* raises leaves the handler before the extraction model is called; the
\* report holds the number of scrape calls
CollectContent ==
    /\ pc = "collect"
    /\ LET r == ContentLoop(search_results,
                            [i |-> 1, raised |-> FALSE, scrape |-> 0,
                             all_content |-> ""])
       IN  /\ IF r.raised
              THEN /\ pc' = "raised"
                   /\ UNCHANGED all_content
              ELSE /\ pc' = "extract"
                   /\ all_content' = r.all_content
           /\ last' = [NoStep("collect") EXCEPT !.scrape = r.scrape]
    /\ UNCHANGED <<state_vars, steps, llm_calls, messages, twin, search_results>>

NextContent ==
    \/ \E results \in ResultLists : SearchCompanies(results)
    \/ CollectContent

SpecContent == InitContent /\ [][NextContent]_vars

-----------------------------------------------------------------------------
(* Properties *)

\* this transition is a decision step
StepTaken == steps' = steps + 1

\* positions inside run_conversation
InRun == pc \in {"loop", "input", "return"}

ApologyTurn == Message("assistant", Apology)

\* C1: inside a run of run_conversation, once conversation_complete is true it
\* stays true, no decision step (so no handler) runs and no model call of any
\* kind is made
C1_CompleteIsFinal ==
    [][(conversation_complete /\ InRun)
        => /\ conversation_complete'
           /\ steps' = steps
           /\ llm_calls' = llm_calls]_vars

\* C1 witness: the conversation was completed by an end decision and the
\* program is back at the head of the loop
C1_Witness ==
    conversation_complete /\ pc = "loop" /\ last.handler = "end" /\ llm_calls > 0

\* C2: a step in which the decision call, the decision's parsing or a call
\* made by the dispatched handler raises ends normally with the history
\* extended by exactly the apology turn, the flag set, the conversation not
\* complete and the program at the prompt; at the prompt no model call is made
C2_ExceptionHandled ==
    [][/\ (StepTaken /\ last'.cause \in {"call", "validation", "handler"})
          => /\ last'.failed
             /\ conversation_history' = Append(conversation_history, ApologyTurn)
             /\ awaiting_user_input'
             /\ ~conversation_complete'
             /\ pc' = "input"
       /\ pc = "input" => llm_calls' = llm_calls]_vars

\* C2 witness: a scrape raised inside a handler and the program is at the prompt
C2_Witness ==
    /\ last.op = "decision" /\ last.cause = "handler" /\ last.scrape > 0
    /\ pc = "input"
    /\ conversation_history[Len(conversation_history)] = ApologyTurn

\* C3 as claimed: every step that takes the failure path leaves the candidate
\* list, the researched list and the recommendation as they were and appends
\* only the apology turn
C3_StatePreserved ==
    [][(StepTaken /\ last'.failed)
        => /\ extracted_tools' = extracted_tools
           /\ researched_companies' = researched_companies
           /\ analysis' = analysis
           /\ conversation_history' = Append(conversation_history, ApologyTurn)]_vars

\* C4 as claimed: after every step the flag is true for respond, ask_question
\* and analyze_companies, false for search_tools, research_company and end,
\* and end leaves the conversation complete
C4_FlagByDispatch ==
    [][StepTaken
        => /\ last'.dtype \in {"respond", "ask_question", "analyze_companies"}
              => awaiting_user_input'
           /\ last'.dtype \in {"search_tools", "research_company", "end"}
              => ~awaiting_user_input'
           /\ last'.dtype = "end" => conversation_complete']_vars

\* C4 amended: after every step the flag is true for respond, ask_question
\* and analyze_companies; after every step that did not take the failure path
\* it is false for search_tools, research_company and end, and end leaves the
\* conversation complete
C4_FlagByDispatchUnlessFailed ==
    [][StepTaken
        => /\ last'.dtype \in {"respond", "ask_question", "analyze_companies"}
              => awaiting_user_input'
           /\ (last'.dtype \in {"search_tools", "research_company", "end"}
               /\ ~last'.failed)
              => ~awaiting_user_input'
           /\ (last'.dtype = "end" /\ ~last'.failed)
              => conversation_complete']_vars

\* C4 witness: a search step has ended without failure and the flag is false
C4_Witness ==
    /\ last.op = "decision" /\ last.dtype = "search_tools" /\ ~last.failed
    /\ ~awaiting_user_input /\ pc = "loop"

\* C5 as claimed: inside a conversation the flag is true only after a respond,
\* ask_question or analyze_companies action (or at the start), and it is false
\* whenever the loop is about to invoke the model
C5_FlagOnlyAfterReply ==
    /\ (InRun /\ awaiting_user_input)
          => \/ last.op = "start"
             \/ /\ last.op \in {"decision", "exit"}
                /\ last.handler \in {"respond", "analyze_companies"}
                /\ ~last.failed
    /\ (pc = "loop" /\ LoopCondition(State)) => ~awaiting_user_input

\* C5 amended: inside a conversation the flag is true only if the most recent
\* decision step was a respond, ask_question or analyze_companies action or
\* took the failure path, and no user turn was appended since; it is false
\* whenever the loop is about to invoke the model
C5_FlagOnlyAfterReplyOrFailure ==
    /\ (InRun /\ awaiting_user_input)
          => /\ last.op \in {"decision", "exit"}
             /\ \/ last.failed
                \/ last.handler \in {"respond", "analyze_companies"}
    /\ (pc = "loop" /\ LoopCondition(State)) => ~awaiting_user_input

\* C5 witness: the flag is true at the prompt after a step that failed inside
\* the research handler
C5_Witness ==
    /\ pc = "input" /\ awaiting_user_input
    /\ last.failed /\ last.dtype = "research_company"

\* C6: a step whose decision is of one of the six kinds and lacks the payload
\* that kind names is a handled failure: nothing is added to the candidate or
\* researched lists, no recommendation is stored, the conversation is not
\* completed, no search, scrape or handler model call is made, and exactly the
\* apology turn is appended with the flag set
C6_MissingPayloadHandled ==
    [][(/\ StepTaken
        /\ last'.dtype \in DecisionTypes
        /\ OwnField(last'.dtype) \notin last'.populated)
        => /\ last'.failed
           /\ last'.handler = "none"
           /\ extracted_tools' = extracted_tools
           /\ researched_companies' = researched_companies
           /\ analysis' = analysis
           /\ ~conversation_complete'
           /\ last'.search = 0 /\ last'.scrape = 0 /\ last'.llm = 0
           /\ llm_calls' = llm_calls + 1
           /\ conversation_history' = Append(conversation_history, ApologyTurn)
           /\ awaiting_user_input']_vars

\* C6 witness: an end decision without its end payload has been handled as a
\* failure
C6_Witness ==
    /\ last.op = "decision" /\ last.dtype = "end" /\ "end" \notin last.populated
    /\ last.failed /\ pc = "input" /\ ~conversation_complete

\* C7 as claimed: every step in which a handler takes effect has exactly one
\* payload populated, the one its decision_type names
C7_ExactlyOnePayload ==
    [][(StepTaken /\ last'.handler # "none" /\ ~last'.failed)
        => last'.populated = {OwnField(last'.dtype)}]_vars

\* C8: a research_company step with n requested names of which k had a URL,
\* and in which nothing raised, appends exactly k records, one per name with
\* a URL in the order requested, and then exactly one tool turn reading
\* "Researched k/n companies: " and the n names comma-joined
C8_ResearchBatch ==
    [][(StepTaken /\ last'.handler = "research_company" /\ ~last'.failed)
        => LET n == Len(last'.request)
               k == Len(last'.found)
               before == Len(researched_companies)
           IN  /\ Len(researched_companies') = before + k
               /\ SubSeq(researched_companies', 1, before) = researched_companies
               /\ \A i \in 1..k :
                     /\ researched_companies'[before + i].name = last'.found[i]
                     /\ researched_companies'[before + i].website
                            = Url(last'.found[i])
               /\ conversation_history' =
                     Append(conversation_history,
                            Message("tool",
                                "Researched " \o ToString(k) \o "/" \o ToString(n)
                                \o " companies: " \o Join(last'.request, ", ")))]_vars

\* C8 witness: of two requested names one had a URL; one record was appended
\* and the turn reads 1/2 with both names
C8_Witness ==
    /\ last.op = "decision" /\ last.handler = "research_company" /\ ~last.failed
    /\ last.request = <<"B", "A">> /\ last.found = <<"B">>
    /\ Len(researched_companies) = 1 /\ researched_companies[1].name = "B"
    /\ conversation_history[Len(conversation_history)] =
          Message("tool", "Researched 1/2 companies: B, A")

\* C9: a search_tools step whose extraction call fails adds no candidate,
\* appends exactly one tool turn (with no names) and no apology, does not take
\* the failure path and leaves the flag false, so the loop goes on
C9_ExtractionFailure ==
    [][(StepTaken /\ last'.handler = "search_tools" /\ last'.extraction = "fail")
        => /\ ~last'.failed
           /\ extracted_tools' = extracted_tools
           /\ conversation_history' =
                 Append(conversation_history, Message("tool", "Found tools: "))
           /\ ~awaiting_user_input'
           /\ ~conversation_complete'
           /\ pc' = "loop"]_vars

\* C9 witness: with candidates already stored, a search step's extraction
\* call failed and the step ended with the empty tool turn
C9_Witness ==
    /\ last.op = "decision" /\ last.handler = "search_tools"
    /\ last.extraction = "fail" /\ last.llm = 1
    /\ extracted_tools # <<>>
    /\ conversation_history[Len(conversation_history)] =
          Message("tool", "Found tools: ")

\* C10: an analyze_companies step taken with nothing researched makes no
\* model call beyond the decision call, yields the literal "No companies
\* researched yet." and does not take the failure path
C10_AnalyzeNothing ==
    [][(/\ StepTaken
        /\ last'.handler = "analyze_companies"
        /\ researched_companies = <<>>)
        => /\ last'.llm = 0
           /\ llm_calls' = llm_calls + 1
           /\ ~last'.failed
           /\ analysis' = Some("No companies researched yet.")
           /\ conversation_history' =
                 conversation_history
                 \o <<Message("tool", "Analysis complete"),
                      Message("assistant", "No companies researched yet.")>>]_vars

\* C10 witness: the analyze handler ran with nothing researched
C10_Witness ==
    /\ last.op = "decision" /\ last.handler = "analyze_companies"
    /\ researched_companies = <<>>
    /\ analysis = Some("No companies researched yet.")
    /\ llm_calls = steps

\* an analyze_companies decision step that did not take the failure path
AnalyzeSucceeded ==
    StepTaken /\ last'.handler = "analyze_companies" /\ ~last'.failed

\* C11 as stated: an analyze_companies step that succeeds stores the text the
\* handler returned, appends a tool-result turn carrying that text, then an
\* assistant turn carrying that text, and sets awaiting_user_input
C11_ToolTurnCarriesText ==
    [][AnalyzeSucceeded
        => /\ last'.text # None
           /\ analysis' = last'.text
           /\ conversation_history' =
                conversation_history
                \o <<Message("tool", last'.text[1]),
                     Message("assistant", last'.text[1])>>
           /\ awaiting_user_input']_vars

\* C11 amended: an analyze_companies step that succeeds stores the text the
\* handler returned, appends a tool-result turn whose text is the fixed
\* "Analysis complete", then an assistant turn carrying the returned text, and
\* sets awaiting_user_input
C11_AnalyzeStoresAndReplies ==
    [][AnalyzeSucceeded
        => /\ last'.text # None
           /\ analysis' = last'.text
           /\ conversation_history' =
                conversation_history
                \o <<Message("tool", "Analysis complete"),
                     Message("assistant", last'.text[1])>>
           /\ awaiting_user_input']_vars

C11_Witness ==
    /\ last.op = "decision" /\ last.handler = "analyze_companies"
    /\ ~last.failed
    /\ researched_companies # <<>>
    /\ last.text = Some("Use A")
    /\ analysis = Some("Use A")
    /\ conversation_history[Len(conversation_history)] =
         Message("assistant", "Use A")

\* the message a turn is to become: user and assistant keep role and text, a
\* tool turn becomes a system message "[Tool Result] " + text
MappedTurn(turn) ==
    IF turn.role = "tool"
    THEN [role |-> "system", content |-> "[Tool Result] " \o turn.content]
    ELSE [role |-> turn.role, content |-> turn.content]

\* C12: the model input built from a history of N turns is the system
\* instruction, then the N turns in order (user as user, assistant as
\* assistant, tool as a system message "[Tool Result] " + text), then one
\* context-summary system message
C12_BuildPreservesTurns ==
    pc = "built"
    => LET N == Len(conversation_history) IN
       /\ Len(messages) = N + 2
       /\ messages[1] = [role |-> "system", content |-> AgentSystemPrompt]
       /\ \A i \in 1..N : messages[i + 1] = MappedTurn(conversation_history[i])
       /\ messages[N + 2] =
            [role |-> "system",
             content |-> "Current Context:\n" \o BuildContextSummary(State)]

C12_Witness ==
    /\ pc = "built"
    /\ conversation_history =
         <<Message("tool", "x"), Message("user", "y"), Message("tool", "x")>>
    /\ Len(messages) = 5
    /\ messages[2] = [role |-> "system", content |-> "[Tool Result] x"]
    /\ messages[3] = [role |-> "user", content |-> "y"]
    /\ messages[4] = messages[2]
    /\ messages[5].content = "Current Context:\nNo previous actions taken"

\* C13: every assistant turn the respond / ask_question branch appends has a
\* non-empty text; a decision of these kinds with an absent or empty message
\* takes the failure path (so a step of these kinds that did not fail appended
\* a turn with text)
C13_MessageNonEmpty ==
    [][(/\ StepTaken
        /\ last'.dtype \in {"respond", "ask_question"}
        /\ ~last'.failed)
        => /\ Len(conversation_history') = Len(conversation_history) + 1
           /\ conversation_history'[Len(conversation_history')].role = "assistant"
           /\ conversation_history'[Len(conversation_history')].content # ""]_vars

\* C14: at the inner prompt a line that, trimmed and in lower case, is exit,
\* quit or bye sets conversation_complete, appends nothing and leads to the
\* return of run_conversation with no further decision step or model call;
\* any other line is appended, trimmed, as one user turn and clears
\* awaiting_user_input before the next decision
C14_InnerPrompt ==
    [][/\ pc = "input"
          => LET typed == Strip(last'.line) IN
             IF Str(Lower(typed)) \in {"exit", "quit", "bye"}
             THEN /\ conversation_complete'
                  /\ conversation_history' = conversation_history
                  /\ pc' = "return"
                  /\ steps' = steps /\ llm_calls' = llm_calls
             ELSE /\ conversation_history' =
                       Append(conversation_history, Message("user", Str(typed)))
                  /\ ~awaiting_user_input'
                  /\ ~conversation_complete'
                  /\ pc' = "loop"
                  /\ steps' = steps /\ llm_calls' = llm_calls
       /\ pc = "return" => (steps' = steps /\ llm_calls' = llm_calls)]_vars

C14_Witness ==
    /\ pc = "return"
    /\ last.op = "exit"
    /\ last.line = <<" ", "E", "x", "i", "t", " ">>
    /\ conversation_complete
    /\ awaiting_user_input
    /\ conversation_history[Len(conversation_history)].role = "assistant"

\* C15: an exit keyword entered at the prompt of main or at the prompt of
\* run_conversation terminates the console loop: the program does not come
\* to a prompt again and makes no model call
C15_ExitTerminates ==
    [][last.op \in {"exit", "main_exit"}
        => /\ pc' \notin {"main_prompt", "input"}
           /\ steps' = steps
           /\ llm_calls' = llm_calls]_vars

\* the last operation was a search_tools or research_company step that did
\* not take the failure path
AfterToolStep ==
    /\ last.op = "decision"
    /\ last.dtype \in {"search_tools", "research_company"}
    /\ ~last.failed

\* C16: a search_tools or research_company step that did not fail leaves the
\* loop at its head with both flags false, and the only thing the loop does
\* from there is the next decision step, whose model input is built from the
\* state as the tool step left it (no line read, no user turn appended)
C16_ToolStepLoops ==
    [][/\ (/\ StepTaken
           /\ last'.dtype \in {"search_tools", "research_company"}
           /\ ~last'.failed)
          => /\ pc' = "loop"
             /\ ~awaiting_user_input'
             /\ ~conversation_complete'
       /\ (AfterToolStep /\ InRun)
          => /\ pc = "loop"
             /\ StepTaken
             /\ llm_calls' > llm_calls
             /\ messages' = BuildLlmMessages(State)]_vars

C16_Witness ==
    /\ steps = 2
    /\ last.op = "decision"
    /\ Len(messages) = 4
    /\ messages[2].role = "user"
    /\ messages[3] = [role |-> "system", content |-> "[Tool Result] Found tools: A"]
    /\ Len(conversation_history) >= 2
    /\ conversation_history[2] = Message("tool", "Found tools: A")

\* the search or the scrape of this research raises
Raises(o) == o.search = "raise" \/ (o.search \in {"url", "meta_url"} /\ o.scrape = "raise")

\* the search of this research yields a URL
HasUrl(o) == o.search \in {"url", "meta_url"}

\* the page analysis of this research is attempted and fails
AnalysisFails(o) == HasUrl(o) /\ o.scrape = "content" /\ o.analysis = "fail"

\* the record C17 describes for a name whose analysis failed
DefaultAnalysisRecord(name) ==
    [name |-> name, description |-> "Analysis failed", website |-> Url(name),
     pricing_model |-> Some("Unknown"), is_open_source |-> None,
     tech_stack |-> <<>>, competitors |-> <<>>, api_available |-> None,
     language_support |-> <<>>, integration_capabilities |-> <<>>,
     developer_experience_rating |-> None]

\* C17: in a research_company step, a name whose page analysis fails (and
\* that no raising search or scrape precedes) gets a record with the default
\* analysis, the name and the found URL at its place in the list; the names
\* after it are still researched (one search call for each name up to the
\* first raise); the step fails only if a search or a scrape raises
C17_AnalysisFailureTolerated ==
    [][(StepTaken /\ last'.handler = "research_company")
        => LET names == last'.request
               os == last'.outcomes
               n == Len(names)
               stops == {i \in 1..n : Raises(os[i])}
               done(i) == \A j \in stops : j > i
               place(i) == Len(researched_companies)
                           + Cardinality({j \in 1..i : HasUrl(os[j])})
           IN  /\ Len(os) = n
               /\ last'.failed <=> stops # {}
               /\ \A i \in 1..n :
                    (AnalysisFails(os[i]) /\ done(i))
                      => /\ Len(researched_companies') >= place(i)
                         /\ researched_companies'[place(i)]
                              = DefaultAnalysisRecord(names[i])
               /\ stops = {}
                    => /\ last'.search = n
                       /\ Len(researched_companies') = place(n)]_vars

C17_Witness ==
    /\ last.op = "decision" /\ last.handler = "research_company"
    /\ ~last.failed
    /\ last.request = <<"B", "A">>
    /\ AnalysisFails(last.outcomes[1])
    /\ last.outcomes[2] = [search |-> "url", scrape |-> "content", analysis |-> "ok"]
    /\ Len(researched_companies) = 2
    /\ researched_companies[1] = DefaultAnalysisRecord("B")
    /\ researched_companies[2].description = "A tool"

\* C18: an end step that did not fail sets conversation_complete and changes
\* no other field of the state; what follows it is the return of
\* run_conversation, with no line read
C18_EndFrame ==
    [][/\ (StepTaken /\ last'.dtype = "end" /\ ~last'.failed)
          => /\ conversation_complete'
             /\ UNCHANGED <<conversation_history, current_query, extracted_tools,
                            researched_companies, awaiting_user_input, analysis>>
             /\ pc' = "loop"
       /\ (InRun /\ last.op = "decision" /\ last.dtype = "end" /\ ~last.failed)
          => /\ pc' = "main_prompt"
             /\ last'.op = "return"
             /\ UNCHANGED state_vars]_vars

C18_Witness ==
    /\ pc = "main_prompt"
    /\ last.op = "return"
    /\ conversation_complete
    /\ ~awaiting_user_input
    /\ steps = 2
    /\ Len(conversation_history) = 2
    /\ conversation_history[2].role = "tool"

\* s is a prefix of t
IsPrefix(s, t) == Len(s) <= Len(t) /\ SubSeq(t, 1, Len(s)) = s

\* C19: across every step inside run_conversation (a decision step of any
\* kind, failed or not, a line read, the return) the history before the step
\* is a prefix of the history after it
C19_HistoryAppendOnly ==
    [][InRun => IsPrefix(conversation_history, conversation_history')]_vars

C19_Witness ==
    /\ last.op = "decision" /\ last.failed
    /\ steps = 2
    /\ Len(conversation_history) = 4
    /\ conversation_history[1] = Message("user", "A?")
    /\ conversation_history[2] = ApologyTurn
    /\ conversation_history[3] = Message("user", "byes")
    /\ conversation_history[4] = ApologyTurn

\* C20: inside a conversation neither list of the research store shrinks or
\* changes what it holds; a search_tools step that did not fail appends every
\* name it extracted, present already or not; a research_company step that
\* did not fail appends one new record for every name with a URL, also for a
\* name that already has a record
C20_StoreOnlyGrows ==
    [][InRun
        => /\ IsPrefix(extracted_tools, extracted_tools')
           /\ IsPrefix(researched_companies, researched_companies')
           /\ (StepTaken /\ last'.handler = "search_tools" /\ ~last'.failed)
                => /\ extracted_tools' = extracted_tools \o last'.tools
                   /\ conversation_history'[Len(conversation_history')].content
                        = "Found tools: " \o Join(last'.tools, ", ")
           /\ (StepTaken /\ last'.handler = "research_company" /\ ~last'.failed)
                => /\ Len(researched_companies')
                        = Len(researched_companies)
                          + Cardinality({i \in 1..Len(last'.request) :
                                           HasUrl(last'.outcomes[i])})
                   /\ \A i \in 1..Len(last'.found) :
                        researched_companies'[Len(researched_companies) + i].name
                          = last'.found[i]]_vars

C20_Witness ==
    /\ steps = 2
    /\ last.op = "decision" /\ last.request = <<"A", "A">> /\ ~last.failed
    /\ Len(researched_companies) = 3
    /\ \A i \in 1..3 : researched_companies[i].name = "A"
    /\ researched_companies[1].description = ""
    /\ researched_companies[2] = DefaultAnalysisRecord("A")
    /\ researched_companies[3].description = "A tool"

\* C21: every run_conversation call from the prompt of main starts from a
\* state whose history is the one user turn holding the trimmed query, with
\* empty candidate and researched lists, no recommendation and both flags
\* false, whatever state the conversation before it left
C21_FreshState ==
    [][(pc = "main_prompt" /\ pc' = "loop")
        => /\ conversation_history'
                = <<Message("user", Str(Strip(last'.line)))>>
           /\ current_query' = Some(Str(Strip(last'.line)))
           /\ extracted_tools' = <<>>
           /\ researched_companies' = <<>>
           /\ analysis' = None
           /\ ~conversation_complete'
           /\ ~awaiting_user_input'
           /\ steps' = 0 /\ llm_calls' = 0]_vars

C21_Witness ==
    /\ pc = "loop"
    /\ last.op = "start"
    /\ last.discarded >= 3
    /\ conversation_history = <<Message("user", "A?")>>
    /\ extracted_tools = <<>> /\ researched_companies = <<>>
    /\ analysis = None
    /\ ~awaiting_user_input /\ ~conversation_complete

RECURSIVE Without(_, _)
\* the names of seq that are not in the set done, in order
Without(seq, done) ==
    IF seq = <<>> THEN <<>>
    ELSE (IF Head(seq) \in done THEN <<>> ELSE <<Head(seq)>>)
         \o Without(Tail(seq), done)

\* the candidates of a state that have no record yet
Pending(st) ==
    Without(st.extracted_tools,
            {st.researched_companies[i].name :
                i \in 1..Len(st.researched_companies)})

\* the summary C22 describes: the pending candidates, the researched tools
\* and whether the analysis is there, in the wording of the code
PendingSummary(st) ==
    LET tools ==
            IF Pending(st) # <<>>
            THEN <<"Extracted Tools: " \o Join(Pending(st), ", ")
                   \o " \n-> Next step: Research these tools using 'research_company'">>
            ELSE <<>>
        researched ==
            IF st.researched_companies # <<>>
            THEN <<"Researched Companies: "
                   \o Join(CompanyNames(st.researched_companies), ", ")
                   \o " \n-> Next step: "
                   \o (IF Len(st.researched_companies) >= AnalyzeThreshold
                       THEN "Analyze if enough data"
                       ELSE "Research more companies")>>
            ELSE <<>>
        done == IF st.analysis # None THEN <<"Analysis Complete: Yes">> ELSE <<>>
        summary == tools \o researched \o done
    IN  IF summary # <<>> THEN Join(summary, "\n")
        ELSE "No previous actions taken"

\* C22: the context summary of the model input lists every candidate
\* extracted so far that has no record yet (and no candidate that has one),
\* the researched tools, and whether the analysis is complete
C22_SummaryListsPending ==
    pc = "built"
    => messages[Len(messages)].content
         = "Current Context:\n" \o PendingSummary(State)

\* the lines of a response that are not blank, trimmed, in order
NonBlankLines(lines) ==
    LET kept == SelectSeq(lines, LAMBDA l : Strip(l) # <<>>)
    IN  [i \in 1..Len(kept) |-> Str(Strip(kept[i]))]

\* C23: a search_tools step that did not fail appends at most five names, the
\* first five non-blank trimmed lines of the extraction response in order
\* (none when the extraction failed), and exactly one tool turn "Found tools: "
\* followed by these names comma-joined
C23_FirstFiveNames ==
    [][(StepTaken /\ last'.handler = "search_tools" /\ ~last'.failed)
        => LET names == NonBlankLines(last'.response)
               first == IF Len(names) <= 5 THEN names ELSE SubSeq(names, 1, 5)
           IN  /\ extracted_tools' = extracted_tools \o first
               /\ Len(extracted_tools') <= Len(extracted_tools) + 5
               /\ conversation_history' =
                    Append(conversation_history,
                           Message("tool", "Found tools: " \o Join(first, ", ")))]_vars

C23_Witness ==
    /\ last.op = "decision" /\ last.handler = "search_tools" /\ ~last.failed
    /\ Len(last.response) = 7
    /\ extracted_tools = <<"A", "B", "A", "B", "A">>
    /\ conversation_history[Len(conversation_history)] =
         Message("tool", "Found tools: A, B, A, B, A")

\* C24: whenever run_conversation enters agent_decision_step, both
\* awaiting_user_input and conversation_complete are false; at the head of
\* the loop the flag awaiting_user_input is never set
C24_EntryFlagsClear ==
    [][/\ StepTaken => (~awaiting_user_input /\ ~conversation_complete)
       /\ pc' = "loop" => ~awaiting_user_input']_vars

C24_Witness ==
    /\ steps = 2
    /\ last.op = "decision"
    /\ Len(messages) = 5
    /\ messages[3].role = "assistant"
    /\ messages[4] = [role |-> "user", content |-> "byes"]

\* C25: a history that has turns starts with a user turn, and every later
\* user turn comes directly after an assistant turn
C25_UserAfterAssistant ==
    /\ conversation_history # <<>> => conversation_history[1].role = "user"
    /\ \A i \in 2..Len(conversation_history) :
         conversation_history[i].role = "user"
           => conversation_history[i - 1].role = "assistant"

C25_Witness ==
    /\ Len(conversation_history) = 5
    /\ conversation_history[2] = ApologyTurn
    /\ conversation_history[3].role = "user"
    /\ conversation_history[4] = Message("assistant", "Hi")
    /\ conversation_history[5] = Message("user", "")

\* C26: whenever the loop is free to invoke the model, it comes after finitely
\* many decision steps to block for user input or to a complete conversation,
\* whatever search_tools and research_company decisions the model returns
C26_ChainEnds ==
    (pc = "loop" /\ ~conversation_complete)
        ~> (pc = "input" \/ conversation_complete)

\* C27: the stored recommendation is there only when at least one tool is
\* researched (an analyze_companies step over an empty list leaves it null),
\* and no context summary built over an empty researched list reports
\* "Analysis Complete: Yes"
C27_AnalysisNeedsResearch ==
    [][/\ analysis' # None => researched_companies' # <<>>
       /\ (StepTaken /\ researched_companies = <<>>)
            => messages'[Len(messages')].content
                 = "Current Context:\n"
                   \o BuildContextSummary([State EXCEPT !.analysis = None])]_vars

\* C28: in the recommendation prompt built for a state with researched
\* tools, the section "User's Needs/Context" holds the conversation's query
\* and the section "Researched Tools Data" holds the serialization of every
\* researched tool
C28_PromptSections ==
    pc = "prompted"
    => messages[2].content
         = "User's Needs/Context: " \o current_query[1]
           \o "\n\nResearched Tools Data:\n" \o CompanyData(researched_companies)
           \o RecommendationAsk

-----------------------------------------------------------------------------
(* C29 *)

\* the model input of workflow.py against the one of the variant: the same
\* length, and at every position the same role and the same content
SameModelInput(ms, gs) ==
    /\ Len(ms) = Len(gs)
    /\ \A i \in 1..Len(ms) :
         /\ ms[i].role = RoleOfKind(gs[i].kind)
         /\ ms[i].content = gs[i].content

-----------------------------------------------------------------------------
(* C30 *)

\* the search gave a URL and the scrape returned nothing
NoContent(o) == HasUrl(o) /\ o.scrape = "none"

\* C30: in a research step, a name whose search gave a URL and whose scrape
\* returned nothing still adds one record, at the name's place among the
\* names with a URL, holding the name and the URL and the initial value in
\* every other field; the step calls the scrape once per name with a URL and
\* the analysis model once per name with content, so a name without result
\* or URL costs one search and nothing else; the tool turn counts the record.
C30_RecordWithoutContent ==
    [][(StepTaken /\ last'.handler = "research_company")
        => LET names == last'.request
               os == last'.outcomes
               n == Len(names)
               stops == {i \in 1..n : Raises(os[i])}
               done(i) == \A j \in stops : j > i
               place(i) == Len(researched_companies)
                           + Cardinality({j \in 1..i : HasUrl(os[j])})
           IN  /\ \A i \in 1..n :
                    (NoContent(os[i]) /\ done(i))
                      => /\ Len(researched_companies') >= place(i)
                         /\ researched_companies'[place(i)]
                              = [name |-> names[i], description |-> "",
                                 website |-> Url(names[i]),
                                 pricing_model |-> None,
                                 is_open_source |-> None,
                                 tech_stack |-> <<>>, competitors |-> <<>>,
                                 api_available |-> None,
                                 language_support |-> <<>>,
                                 integration_capabilities |-> <<>>,
                                 developer_experience_rating |-> None]
               /\ stops = {}
                    => /\ last'.search = n
                       /\ last'.scrape
                            = Cardinality({i \in 1..n : HasUrl(os[i])})
                       /\ last'.llm
                            = Cardinality({i \in 1..n :
                                 os[i].scrape = "content"
                                 /\ HasUrl(os[i])})
                       /\ Len(researched_companies') = place(n)
                       /\ IsPrefix("Researched "
                                   \o ToString(place(n) - Len(researched_companies))
                                   \o "/" \o ToString(n) \o " ",
                                   conversation_history'[
                                       Len(conversation_history')].content)]_vars

\* a research of two names: the first has a URL found in the metadata and a
\* page without content, the second has no search result; one scrape, no
\* model call, one blank record
C30_Witness ==
    /\ last.op = "decision" /\ last.handler = "research_company"
    /\ ~last.failed
    /\ last.request = <<"B", "A">>
    /\ last.outcomes[1].search = "meta_url" /\ NoContent(last.outcomes[1])
    /\ last.outcomes[2].search = "empty"
    /\ last.search = 2 /\ last.scrape = 1 /\ last.llm = 0
    /\ Len(researched_companies) = 1
    /\ researched_companies[1] = CompanyInfo("B", Url("B"))

-----------------------------------------------------------------------------
(* C31 *)

\* the result has a URL, directly or under its metadata
ResultHasUrl(result) == result.url # "none"

\* the result has a URL and scraping it gave a text that is not empty
ResultHasText(result) ==
    ResultHasUrl(result) /\ result.scrape = "page" /\ result.markdown # ""

\* the first min(limit, length) characters of a text
FirstChars(text, limit) ==
    SubSeq(text, 1, IF Len(text) < limit THEN Len(text) ELSE limit)

RECURSIVE BlocksOf(_, _)
\* one block per result with text, in the order of the results, each block
\* followed by the text sep
BlocksOf(results, sep) ==
    IF results = <<>> THEN ""
    ELSE LET rest == BlocksOf(SubSeq(results, 1, Len(results) - 1), sep)
             result == results[Len(results)]
         IN  IF ResultHasText(result)
             THEN rest \o FirstChars(result.markdown, PageLimit) \o sep
             ELSE rest

\* the results that have a URL
WithUrl(results) == {i \in 1..Len(results) : ResultHasUrl(results[i])}

\* C31 as stated: the content handed to the extraction model is the
\* concatenation, in result order, of the first min(1500, length) characters
\* of the text of every result with a URL and a non-empty text, and nothing
\* else; only results with a URL are scraped; the content has at most 1502
\* characters per result with a URL.
C31_ContentIsPrefixes ==
    pc = "extract"
      => /\ all_content = BlocksOf(search_results, "")
         /\ last.scrape = Cardinality(WithUrl(search_results))
         /\ Len(all_content)
              <= (PageLimit + 2) * Cardinality(WithUrl(search_results))

\* C31, amended: the content handed to the extraction model is the
\* concatenation, in result order, of one block per result with a URL and a
\* non-empty text, each block being the first min(1500, length) characters
\* of the text followed by two line breaks; only results with a URL are
\* scraped; the content has at most 1502 characters per result with a URL.
C31_ContentBlocks ==
    pc = "extract"
      => /\ all_content = BlocksOf(search_results, "\n\n")
         /\ last.scrape = Cardinality(WithUrl(search_results))
         /\ Len(all_content)
              <= (PageLimit + 2) * Cardinality(WithUrl(search_results))

\* two results: the first has no URL, the second a text one character longer
\* than the limit; the content is the limit's worth of it and the line breaks
C31_Witness ==
    /\ pc = "extract"
    /\ Len(search_results) = 2
    /\ ~ResultHasUrl(search_results[1])
    /\ search_results[2].markdown = PageText(PageLimit + 1)
    /\ last.scrape = 1
    /\ all_content = Repeat("a", PageLimit) \o "\n\n"
    /\ Len(all_content) = PageLimit + 2

====
